---- MODULE Spec2Model ----
(***************************************************************************)
(* Model of github_repo_list_with_dependabot_alerts_csv.py: one run of     *)
(* main() against a server whose responses are chosen at each call.        *)
(*                                                                         *)
(* Python values are represented as follows.                               *)
(*   str that the code compares or searches : sequence of 1-char strings   *)
(*   str that the code only copies          : TLA+ string                  *)
(*   error message                          : sequence of words            *)
(*   None / JSON null                       : <<>>   (Null)                *)
(*   a non-null optional value v            : <<v>>  (Some(v))             *)
(*   JSON array                             : [type |-> "list", val |-> s] *)
(*   JSON object                            : [type |-> "dict", val |-> r] *)
(***************************************************************************)
EXTENDS Integers, Sequences, FiniteSets, TLC

\* ------------------------------------------------------------------ bounds
MaxPages == 2

MaxRepos == 2

MaxQueryPages == 2

MaxAlerts == 2

MaxRows == 3

\* ------------------------------------------------------- Python primitives
Null == <<>>

Some(v) == <<v>>

JList(s) == [type |-> "list", val |-> s]

JDict(d) == [type |-> "dict", val |-> d]

Range(s) == {s[i] : i \in DOMAIN s}

Last(s) == s[Len(s)]

\* bool(x) of an optional value: None is falsy, the values used here are not
Truthy(x) == x # Null

\* dict.get(key): the value, or None when the key is absent
Get(d, k) == IF k \in DOMAIN d THEN d[k] ELSE Null

\* "key" in content: key lookup in a dict, element equality in a list (the
\* elements of the lists served here are dicts, never the string itself)
HasKey(content, k) == content.type = "dict" /\ k \in DOMAIN content.val

\* the characters "-" (45) .. "z" (122) in code-point order; the backslash
\* (92) and the backquote (96) occur in no string of the model and only hold
\* their places
AsciiFrom45 ==
  << "-", ".", "/", "0", "1", "2", "3", "4", "5", "6", "7", "8", "9", ":",
     ";", "<", "=", ">", "?", "@", "A", "B", "C", "D", "E", "F", "G", "H",
     "I", "J", "K", "L", "M", "N", "O", "P", "Q", "R", "S", "T", "U", "V",
     "W", "X", "Y", "Z", "[", "bslash", "]", "^", "_", "bquote", "a", "b", "c", "d",
     "e", "f", "g", "h", "i", "j", "k", "l", "m", "n", "o", "p", "q", "r",
     "s", "t", "u", "v", "w", "x", "y", "z" >>

\* ord(c)
Ord(c) == 44 + (CHOOSE i \in DOMAIN AsciiFrom45 : AsciiFrom45[i] = c)

\* a < b on str: code-point lexicographic, a proper prefix is smaller
RECURSIVE StrLess(_, _)
StrLess(a, b) ==
  IF b = <<>> THEN FALSE
  ELSE IF a = <<>> THEN TRUE
  ELSE IF Ord(Head(a)) # Ord(Head(b)) THEN Ord(Head(a)) < Ord(Head(b))
  ELSE StrLess(Tail(a), Tail(b))

\* sub in s
Contains(s, sub) ==
  \E i \in 1..(Len(s) - Len(sub) + 1) : SubSeq(s, i, i + Len(sub) - 1) = sub

\* s.startswith(prefix)
StartsWith(s, prefix) ==
  Len(s) >= Len(prefix) /\ SubSeq(s, 1, Len(prefix)) = prefix

\* ------------------------------------------------------- string literals
GithubStr == <<"g", "i", "t", "h", "u", "b">>

NoneEmail == <<"n", "o", "n", "e">>

EmptyStr == <<>>

EmptyRepoDate == <<"<", "e", "m", "p", "t", "y", "_", "r", "e", "p", "o", ">">>

RateLimitPrefix == <<"API", "rate", "limit", "exceeded">>

NotFoundMsg == <<"Not", "Found">>

EmptyRepoMsg == <<"Git", "Repository", "is", "empty.">>

\* ------------------------------------------------------------ last_commit
\* the outcome of a call: a returned value or a raised exception
Return(v) == [ok |-> TRUE, value |-> v]

Raise(e) == [ok |-> FALSE, exc |-> e]

\* content[0]["commit"]["committer"]["date"], content[0]["commit"]["author"]
\* ["email"] and ["name"] can all be read from the entry
HasCommitFields(entry) ==
  /\ "commit" \in DOMAIN entry
  /\ "committer" \in DOMAIN entry.commit
  /\ "date" \in DOMAIN entry.commit.committer
  /\ "author" \in DOMAIN entry.commit
  /\ "email" \in DOMAIN entry.commit.author
  /\ "name" \in DOMAIN entry.commit.author

\* a variant of Redact that looks for "github" at the start of the email only
RedactPrefix(email) == IF StartsWith(email, GithubStr) THEN NoneEmail ELSE email

\* if "github" in email: email = "none"
Redact(email) == IF Contains(email, GithubStr) THEN NoneEmail ELSE email

\* a variant of IsEmptyRepoMarker that expects the message without its full stop
IsEmptyRepoMarkerNoStop(content) ==
  HasKey(content, "message") /\ content.val.message = <<"Git", "Repository", "is", "empty">>

\* the except KeyError branch: the empty-repository marker
IsEmptyRepoMarker(content) ==
  HasKey(content, "message") /\ content.val.message = EmptyRepoMsg

\* a variant of LastCommit whose except branch returns the sentinel for any
\* response the fields cannot be read from
LastCommitLenient(content) ==
  IF content.type = "list" /\ content.val = <<>> THEN Raise("IndexError")
  ELSE IF content.type = "list" /\ HasCommitFields(content.val[1])
    THEN LET c == content.val[1].commit
         IN  Return(<<c.committer.date, Redact(c.author.email), c.author.name>>)
  ELSE Return(<<EmptyRepoDate, EmptyStr, EmptyStr>>)

\* last_commit(repo) applied to the decoded response body.  content[0] raises
\* IndexError on an empty list (not caught) and KeyError on a dict (caught);
\* a KeyError that is not the marker falls through to raise Exception(content)
LastCommit(content) ==
  IF content.type = "list" /\ content.val = <<>> THEN Raise("IndexError")
  ELSE IF content.type = "list" /\ HasCommitFields(content.val[1])
    THEN LET c == content.val[1].commit
         IN  Return(<<c.committer.date, Redact(c.author.email), c.author.name>>)
  ELSE IF IsEmptyRepoMarker(content)
    THEN Return(<<EmptyRepoDate, EmptyStr, EmptyStr>>)
  ELSE Raise("Exception")

\* ------------------------------------------------------ getDependencyAlerts
\* a variant of IsOpen that does not look at the dismisser
IsOpenIgnoringDismisser(alert) ==
  /\ ~Truthy(Get(alert, "dismissedAt"))
  /\ ~Truthy(Get(alert, "fixedAt"))

\* not alert.get('dismissedAt') and not alert.get('fixedAt')
\*   and not alert.get('dismisser')
IsOpen(alert) ==
  /\ ~Truthy(Get(alert, "dismissedAt"))
  /\ ~Truthy(Get(alert, "fixedAt"))
  /\ ~Truthy(Get(alert, "dismisser"))

Severity(alert) == alert.securityAdvisory.severity

\* the loop over alerts: <<critical, high>>
RECURSIVE CountAlerts(_)
CountAlerts(alerts) ==
  IF alerts = <<>> THEN <<0, 0>>
  ELSE LET rest == CountAlerts(Tail(alerts))
           a == Head(alerts)
       IN  IF IsOpen(a) /\ Severity(a) = "CRITICAL" THEN <<rest[1] + 1, rest[2]>>
           ELSE IF IsOpen(a) /\ Severity(a) = "HIGH" THEN <<rest[1], rest[2] + 1>>
           ELSE rest

\* a variant of CountMismatch that only notices missing alerts
CountMismatchFewer(alerts, totalCount) ==
  totalCount = Null \/ Len(alerts) < totalCount[1]

\* if len(alerts) != totalCount: raise
CountMismatch(alerts, totalCount) == Some(Len(alerts)) # totalCount

\* ------------------------------------------------------------- list_repos
\* a variant of RateLimited that expects the message to be the prefix itself
RateLimitedExact(content) ==
  HasKey(content, "message") /\ content.val.message = RateLimitPrefix

RateLimited(content) ==
  HasKey(content, "message") /\ StartsWith(content.val.message, RateLimitPrefix)

OrgNotFound(content) ==
  HasKey(content, "message") /\ content.val.message = NotFoundMsg

\* the two break conditions of the while loop
EarlyTermination(content) == RateLimited(content) \/ OrgNotFound(content)

\* a variant of NextUrl that never follows a link
NextUrlNone(links) == Null

\* response.links["next"]["url"] if "next" in response.links else None
NextUrl(links) == IF "next" \in DOMAIN links THEN Some(links.next.url) ELSE Null

\* high, critical = getDependencyAlerts(...): the names are bound in the order
\* of the returned pair, whatever the pair holds
\* repos.append((repo, commit_date, high, critical, email, author))
MakeRecord(repo, triple, ret) ==
  LET high == ret[1]
      critical == ret[2]
  IN  <<repo, triple[1], high, critical, triple[2], triple[3]>>

\* ------------------------------------------------------------------- main
\* a variant of InsertDesc without reverse=True: ascending order
RECURSIVE InsertAsc(_, _)
InsertAsc(rows, r) ==
  IF rows = <<>> THEN <<r>>
  ELSE IF StrLess(r[2], Head(rows)[2]) THEN <<r>> \o rows
  ELSE <<Head(rows)>> \o InsertAsc(Tail(rows), r)

\* the place sorted(..., reverse=True) gives r among the rows already placed:
\* before the first row whose key is smaller, so after any row of equal key
RECURSIVE InsertDesc(_, _)
InsertDesc(rows, r) ==
  IF rows = <<>> THEN <<r>>
  ELSE IF StrLess(Head(rows)[2], r[2]) THEN <<r>> \o rows
  ELSE <<Head(rows)>> \o InsertDesc(Tail(rows), r)

\* a variant of SortedRepos that leaves the rows in the order listed
Unsorted(rows) == rows

\* sorted(repos_data, key=lambda r: r[1], reverse=True): stable
RECURSIVE SortedRepos(_)
SortedRepos(rows) ==
  IF rows = <<>> THEN <<>>
  ELSE InsertDesc(SortedRepos(SubSeq(rows, 1, Len(rows) - 1)), Last(rows))

\* ------------------------------------------------------------- the server
Date2023 == <<"2", "0", "2", "3", "-", "0", "1", "-", "0", "1">>

Date2024 == <<"2", "0", "2", "4", "-", "0", "6", "-", "0", "1">>

\* a proper prefix of Date2024
Date2024Short == <<"2", "0", "2", "4">>

DevEmail == <<"d", "e", "v", "@", "c", "o", ".", "i", "o">>

BotEmail == <<"b", "o", "t", "@", "g", "i", "t", "h", "u", "b", ".", "i", "o">>

GithubOnly == <<"g", "i", "t", "h", "u", "b">>

TailEmail == <<"m", "e", "@", "x", ".", "g", "i", "t", "h", "u", "b">>

CapsEmail == <<"m", "e", "@", "G", "i", "t", "H", "u", "b", ".", "i", "o">>

GapEmail == <<"g", "i", "t", "@", "h", "u", "b", ".", "i", "o">>

NearEmail == <<"g", "i", "t", "h", "u", "@", "b", ".", "i", "o">>

\* the organization's repositories in the order the server lists them
OrgRepos == <<"A", "B", "C", "D", "E", "F">>

RateLimitMsg == RateLimitPrefix \o <<"for", "user">>

BadCredentialsMsg == <<"Bad", "credentials">>

NotFoundLongMsg == NotFoundMsg \o <<"here">>

NoLinks == <<>>

\* bodies of the repository-list endpoint that are error objects
ListErrors ==
  {JDict([message |-> m]) :
     m \in {RateLimitPrefix, RateLimitMsg, NotFoundMsg, NotFoundLongMsg, BadCredentialsMsg}}

\* what the repository-list endpoint can answer to the call for page u when
\* `served` repositories were listed on earlier pages and at most `room` more
\* exist: an error object, or the next n repositories, with a next link or
\* without (an empty page carries no next link)
ListResponses(u, served, room) ==
  LET pages == {[i \in 1..n |-> [name |-> OrgRepos[served + i]]] : n \in 0..room}
      nexts == {NoLinks} \cup (IF u < MaxPages THEN {[next |-> [url |-> u + 1]]} ELSE {})
  IN  {[content |-> c, links |-> NoLinks] : c \in ListErrors}
        \cup {r \in {[content |-> JList(p), links |-> l] : p \in pages, l \in nexts} :
                r.content.val = <<>> => r.links = NoLinks}

CommitEntry(date, email, name) ==
  [commit |-> [committer |-> [date |-> date], author |-> [email |-> email, name |-> name]]]

\* an entry without the committer object
NoCommitterEntry(email, name) == [commit |-> [author |-> [email |-> email, name |-> name]]]

\* what the commit-list endpoint can answer for a repository: `empty` says
\* whether the repository has zero commits
CommitAnswers(commits) ==
  {[empty |-> FALSE, body |-> JList(<<CommitEntry(c[1], c[2], c[3])>>)] : c \in commits}
    \cup {[empty |-> FALSE, body |-> JList(<<[sha |-> "abc"]>>)],
          [empty |-> FALSE, body |-> JList(<<NoCommitterEntry(DevEmail, "Ann")>>)],
          [empty |-> FALSE, body |-> JDict([message |-> RateLimitMsg])],
          [empty |-> TRUE, body |-> JDict([message |-> EmptyRepoMsg])],
          [empty |-> TRUE, body |-> JDict([message |-> RateLimitMsg])],
          [empty |-> TRUE, body |-> JList(<<>>)]}

RunCommits == {<<Date2024, DevEmail, "Ann">>}

AllCommits ==
  {Date2023, Date2024, Date2024Short}
    \X {DevEmail, BotEmail, GithubOnly, TailEmail, CapsEmail, GapEmail, NearEmail, EmptyStr}
    \X {"Ann", "github-actions"}

Alert(dismissedAt, fixedAt, dismisser, severity) ==
  [dismissedAt |-> dismissedAt, fixedAt |-> fixedAt, dismisser |-> dismisser,
   securityAdvisory |-> [severity |-> severity]]

Timestamp == Some("2024-01-01T00:00:00Z")

Octocat == Some([login |-> "octocat"])

OpenCritical == Alert(Null, Null, Null, "CRITICAL")

OpenHigh == Alert(Null, Null, Null, "HIGH")

AlertKinds ==
  { OpenCritical,
    OpenHigh,
    Alert(Null, Null, Null, "MODERATE"),
    Alert(Null, Null, Null, "high"),
    Alert(Timestamp, Null, Null, "CRITICAL"),
    Alert(Null, Timestamp, Null, "HIGH"),
    Alert(Null, Null, Octocat, "CRITICAL"),
    [fixedAt |-> Null, securityAdvisory |-> [severity |-> "HIGH"]] }

Cursors == {"Y1", "Y2"}

\* what the GraphQL endpoint can answer to the query number n + 1 of one
\* getDependencyAlerts call: a page of at most `room` nodes and a total count
\* among `totals`
QueryResponses(n, room, totals, kinds, cursors) ==
  LET nodes == UNION {[1..k -> kinds] : k \in 0..room}
      infos == {[hasNextPage |-> FALSE, endCursor |-> Null]}
                 \cup (IF n + 1 < MaxQueryPages
                       THEN {[hasNextPage |-> TRUE, endCursor |-> Some(c)] : c \in cursors}
                       ELSE {})
  IN  {[status |-> 502]}
        \cup {[status |-> 200,
               data |-> [totalCount |-> t, nodes |-> ns, pageInfo |-> i]] :
                t \in totals, ns \in nodes, i \in infos}

\* -------------------------------------------------------------- the state
VARIABLES
  pc,          \* where the run stands: auth, list, commit, query, done, aborted
  url,         \* list_repos: url (the page number stands for the page's URL)
  repos,       \* list_repos: repos
  content,     \* list_repos: content of the page being processed
  links,       \* list_repos: response.links of the page being processed
  idx,         \* list_repos: position of the for loop in content
  triple,      \* list_repos: (commit_date, email, author) of the current repo
  after,       \* getDependencyAlerts: variables["after"]
  totalCount,  \* getDependencyAlerts: totalCount
  alerts,      \* getDependencyAlerts: alerts
  printed,     \* main: the collection printed by print(repos_sorted), if any
  lines,       \* main: the records printed one per line, in order
  listLog,     \* history: the responses to the repository-list calls
  commitLog,   \* history: the last_commit calls, each with its answer
  aggLog,      \* history: the repositories getDependencyAlerts was called for
  aggReturn,   \* history: the pairs getDependencyAlerts returned
  queryLog,    \* history: the queries of the current getDependencyAlerts call
  declared,    \* history: the total count on the last alert page received
  failed       \* history: a fatal response was received

vars ==
  <<pc, url, repos, content, links, idx, triple, after, totalCount, alerts,
    printed, lines, listLog, commitLog, aggLog, aggReturn, queryLog, declared,
    failed>>

listVars == <<content, links, idx, triple>>

queryVars == <<after, totalCount, alerts>>

outVars == <<printed, lines>>

Init ==
  /\ pc = "auth"
  /\ url = Null
  /\ repos = <<>>
  /\ content = JList(<<>>)
  /\ links = NoLinks
  /\ idx = 0
  /\ triple = <<>>
  /\ after = Null
  /\ totalCount = Null
  /\ alerts = <<>>
  /\ printed = Null
  /\ lines = <<>>
  /\ listLog = <<>>
  /\ commitLog = <<>>
  /\ aggLog = <<>>
  /\ aggReturn = <<>>
  /\ queryLog = <<>>
  /\ declared = Null
  /\ failed = FALSE

\* ------------------------------------------------------------ the actions
RateLimits == {60, 5000, 1000}

\* main: get_auth_status(), then list_repos() up to its first call.  The
\* branches on the rate limit only print.
GetAuthStatus ==
  /\ pc = "auth"
  /\ \E my_rate \in RateLimits :
       /\ pc' = "list"
       /\ url' = Some(1)
       /\ repos' = <<>>
  /\ UNCHANGED <<listVars, queryVars, outVars, listLog, commitLog, aggLog,
                 aggReturn, queryLog, declared, failed>>

\* main after list_repos() returned rows: sort, print the collection, print
\* one line per record
Report(rows) ==
  /\ printed' = Some(SortedRepos(rows))
  /\ lines' = SortedRepos(rows)
  /\ pc' = "done"

\* list_repos at the end of the for loop: follow the next link or return
EndOfPage(lk, rows) ==
  /\ url' = NextUrl(lk)
  /\ IF NextUrl(lk) = Null
       THEN Report(rows)
       ELSE pc' = "list" /\ UNCHANGED outVars

\* no getDependencyAlerts call is in progress: its locals exist no more (they
\* are kept, with the history of the call, until the next outbound call)
NoQuery ==
  /\ after' = Null
  /\ totalCount' = Null
  /\ alerts' = <<>>
  /\ queryLog' = <<>>
  /\ declared' = Null

\* list_repos: one iteration of the while loop up to the first repository.
\* Iterating an error object that is no break condition yields its keys, and
\* item["name"] on a str raises TypeError.
ListReposPage(responses) ==
  /\ pc = "list"
  /\ \E resp \in responses :
       /\ listLog' = Append(listLog, [url |-> url, content |-> resp.content,
                                      links |-> resp.links])
       /\ content' = resp.content
       /\ links' = resp.links
       /\ IF EarlyTermination(resp.content)
            THEN Report(repos) /\ UNCHANGED <<url, idx>>
          ELSE IF resp.content.type = "dict"
            THEN pc' = "aborted" /\ UNCHANGED <<url, idx, outVars>>
          ELSE IF resp.content.val = <<>>
            THEN EndOfPage(resp.links, repos) /\ UNCHANGED idx
          ELSE pc' = "commit" /\ idx' = 1 /\ UNCHANGED <<url, outVars>>
  /\ NoQuery
  /\ UNCHANGED <<repos, triple, commitLog, aggLog, aggReturn, failed>>

\* the commit response has none of the shapes last_commit is written for
UnexpectedCommitShape(body) ==
  /\ ~(body.type = "list" /\ body.val # <<>> /\ HasCommitFields(body.val[1]))
  /\ ~(body.type = "dict" /\ Get(body.val, "message") = EmptyRepoMsg)

\* list_repos: last_commit(repo) for the current item, then the start of
\* getDependencyAlerts up to its first query
LastCommitCall(answers) ==
  /\ pc = "commit"
  /\ \E ans \in answers :
       LET repo == content.val[idx].name
           r == LastCommit(ans.body)
       IN  /\ commitLog' = Append(commitLog, [repo |-> repo, empty |-> ans.empty,
                                              body |-> ans.body])
           /\ failed' = UnexpectedCommitShape(ans.body)
           /\ IF r.ok
                THEN /\ triple' = r.value
                     /\ pc' = "query"
                     /\ aggLog' = Append(aggLog, repo)
                ELSE /\ pc' = "aborted"
                     /\ UNCHANGED <<triple, aggLog>>
  /\ NoQuery
  /\ UNCHANGED <<url, repos, content, links, idx, outVars, listLog, aggReturn>>

\* number of alert nodes in the pages logged
RECURSIVE NodesLogged(_)
NodesLogged(log) ==
  IF log = <<>> THEN 0
  ELSE NodesLogged(SubSeq(log, 1, Len(log) - 1)) + Len(Last(log).nodes)

\* getDependencyAlerts: one run_query; after the last page the count check,
\* the counting, and back in list_repos the append and the loop's next step
RunQuery(responses) ==
  /\ pc = "query"
  /\ \E resp \in responses :
       /\ IF resp.status # 200
            THEN /\ pc' = "aborted"
                 /\ failed' = TRUE
                 /\ queryLog' = Append(queryLog, [after |-> after, status |-> resp.status,
                                                  nodes |-> <<>>])
                 /\ UNCHANGED <<url, repos, idx, queryVars, outVars, aggReturn, declared>>
            ELSE LET data == resp.data
                     all == alerts \o data.nodes
                     log == Append(queryLog, [after |-> after, status |-> 200,
                                              nodes |-> data.nodes,
                                              pageInfo |-> data.pageInfo])
                     ret == CountAlerts(all)
                     rows == Append(repos, MakeRecord(content.val[idx].name, triple, ret))
                     mismatch == NodesLogged(log) # data.totalCount
                 IN  /\ queryLog' = log
                     /\ declared' = Some(data.totalCount)
                     /\ totalCount' = Some(data.totalCount)
                     /\ alerts' = all
                     /\ IF data.pageInfo.hasNextPage
                          THEN /\ after' = data.pageInfo.endCursor
                               /\ UNCHANGED <<pc, url, repos, idx, outVars, aggReturn, failed>>
                        ELSE /\ after' = after
                             /\ failed' = mismatch
                             /\ IF CountMismatch(all, Some(data.totalCount))
                                  THEN /\ pc' = "aborted"
                                       /\ UNCHANGED <<url, repos, idx, outVars, aggReturn>>
                                  ELSE /\ repos' = rows
                                       /\ aggReturn' = Append(aggReturn, ret)
                                       /\ IF idx < Len(content.val)
                                            THEN pc' = "commit" /\ idx' = idx + 1
                                                   /\ UNCHANGED <<url, outVars>>
                                            ELSE EndOfPage(links, rows) /\ UNCHANGED idx
  /\ UNCHANGED <<content, links, triple, listLog, commitLog, aggLog>>

\* -------------------------------------------------- the run, from its start
\* a whole run; every alert the server reports is an open CRITICAL one, and
\* the total count it declares is the same on every page of one call
Next ==
  \/ GetAuthStatus
  \/ ListReposPage(ListResponses(url[1], Len(repos), MaxRepos - Len(repos)))
  \/ LastCommitCall(CommitAnswers(RunCommits))
  \/ RunQuery(QueryResponses(Len(queryLog), MaxAlerts - Len(alerts),
                             IF declared = Null THEN 0..MaxAlerts ELSE {declared[1]},
                             {OpenCritical}, {"Y1"}))

Spec == Init /\ [][Next]_vars

\* ------------------------------------- one getDependencyAlerts call, in full
\* the run stands before the first alert query of an organization's only
\* repository; the alerts are of every kind
AggInit ==
  \E ans \in {a \in CommitAnswers(RunCommits) : LastCommit(a.body).ok} :
    /\ pc = "query"
    /\ url = Some(1)
    /\ repos = <<>>
    /\ content = JList(<<[name |-> OrgRepos[1]]>>)
    /\ links = NoLinks
    /\ idx = 1
    /\ triple = LastCommit(ans.body).value
    /\ after = Null
    /\ totalCount = Null
    /\ alerts = <<>>
    /\ printed = Null
    /\ lines = <<>>
    /\ listLog = <<[url |-> Some(1), content |-> JList(<<[name |-> OrgRepos[1]]>>),
                    links |-> NoLinks]>>
    /\ commitLog = <<[repo |-> OrgRepos[1], empty |-> ans.empty, body |-> ans.body]>>
    /\ aggLog = <<OrgRepos[1]>>
    /\ aggReturn = <<>>
    /\ queryLog = <<>>
    /\ declared = Null
    /\ failed = FALSE

AggNext ==
  RunQuery(QueryResponses(Len(queryLog), MaxAlerts - Len(alerts), 0..MaxAlerts,
                          AlertKinds, Cursors))

AggSpec == AggInit /\ [][AggNext]_vars

\* ------------------------------------------------ one last_commit call, in full
\* the run stands before the commit call of an organization's only repository;
\* the commits are of every kind and the repository has no alert
CommitInit ==
  /\ pc = "commit"
  /\ url = Some(1)
  /\ repos = <<>>
  /\ content = JList(<<[name |-> OrgRepos[1]]>>)
  /\ links = NoLinks
  /\ idx = 1
  /\ triple = <<>>
  /\ after = Null
  /\ totalCount = Null
  /\ alerts = <<>>
  /\ printed = Null
  /\ lines = <<>>
  /\ listLog = <<[url |-> Some(1), content |-> JList(<<[name |-> OrgRepos[1]]>>),
                  links |-> NoLinks]>>
  /\ commitLog = <<>>
  /\ aggLog = <<>>
  /\ aggReturn = <<>>
  /\ queryLog = <<>>
  /\ declared = Null
  /\ failed = FALSE

CommitNext ==
  \/ LastCommitCall(CommitAnswers(AllCommits))
  \/ RunQuery(QueryResponses(Len(queryLog), 0, {0}, {}, {}))

CommitSpec == CommitInit /\ [][CommitNext]_vars

\* ------------------------------------------------------ the report, in full
SortDates == {Date2023, Date2024, Date2024Short, EmptyRepoDate}

\* the record of the i-th repository when its last commit date is d and it
\* has no alert
SortRow(i, d) ==
  IF d = EmptyRepoDate THEN <<OrgRepos[i], d, 0, 0, EmptyStr, EmptyStr>>
  ELSE <<OrgRepos[i], d, 0, 0, DevEmail, "Ann">>

\* the answer of the commit endpoint that record came from
SortAnswer(row) ==
  IF row[2] = EmptyRepoDate
    THEN [repo |-> row[1], empty |-> TRUE, body |-> JDict([message |-> EmptyRepoMsg])]
    ELSE [repo |-> row[1], empty |-> FALSE,
          body |-> JList(<<CommitEntry(row[2], row[5], row[6])>>)]

\* the run stands before the call for the second page of the repository list;
\* the first page listed one to MaxRows repositories with dates of every kind
SortInit ==
  \E n \in 1..MaxRows : \E dates \in [1..n -> SortDates] :
    LET rows == [i \in 1..n |-> SortRow(i, dates[i])]
        page == JList([i \in 1..n |-> [name |-> OrgRepos[i]]])
        more == [next |-> [url |-> 2]]
    IN  /\ pc = "list"
        /\ url = Some(2)
        /\ repos = rows
        /\ content = page
        /\ links = more
        /\ idx = n
        /\ triple = <<rows[n][2], rows[n][5], rows[n][6]>>
        /\ after = Null
        /\ totalCount = Some(0)
        /\ alerts = <<>>
        /\ printed = Null
        /\ lines = <<>>
        /\ listLog = <<[url |-> Some(1), content |-> page, links |-> more]>>
        /\ commitLog = [i \in 1..n |-> SortAnswer(rows[i])]
        /\ aggLog = [i \in 1..n |-> OrgRepos[i]]
        /\ aggReturn = [i \in 1..n |-> <<0, 0>>]
        /\ queryLog = <<[after |-> Null, status |-> 200, nodes |-> <<>>,
                         pageInfo |-> [hasNextPage |-> FALSE, endCursor |-> Null]]>>
        /\ declared = Some(0)
        /\ failed = FALSE

SortNext == ListReposPage(ListResponses(url[1], Len(repos), 0))

SortSpec == SortInit /\ [][SortNext]_vars

\* ------------------------------------------------------------- properties
\* the repository names on the list pages logged, in the order served
RECURSIVE Listed(_)
Listed(log) ==
  IF log = <<>> THEN <<>>
  ELSE Listed(SubSeq(log, 1, Len(log) - 1))
         \o (IF Last(log).content.type = "list"
             THEN [i \in DOMAIN Last(log).content.val |-> Last(log).content.val[i].name]
             ELSE <<>>)

\* the alert nodes on the alert pages logged, in the order served
RECURSIVE Served(_)
Served(log) ==
  IF log = <<>> THEN <<>> ELSE Served(SubSeq(log, 1, Len(log) - 1)) \o Last(log).nodes

Occurrences(s, x) == Cardinality({i \in DOMAIN s : s[i] = x})

\* p holds the rows of s, each as often as s does, in non-increasing order of
\* the commit date under code-point comparison
SortedPermutation(p, s) ==
  /\ Len(p) = Len(s)
  /\ \A x \in Range(p) \cup Range(s) : Occurrences(p, x) = Occurrences(s, x)
  /\ \A i, j \in DOMAIN p : i < j => ~StrLess(p[i][2], p[j][2])

\* the list body is one of the two error objects that end the listing
StopsListing(body) ==
  /\ body.type = "dict"
  /\ "message" \in DOMAIN body.val
  /\ body.val.message \in {RateLimitPrefix, RateLimitMsg, NotFoundMsg}

MarkerBody == JDict([message |-> EmptyRepoMsg])

SentinelTriple == <<EmptyRepoDate, EmptyStr, EmptyStr>>

\* C1: every record appended holds the repository's open HIGH count in its
\* third field and its open CRITICAL count in its fourth, the aggregator
\* having returned the pair (critical_count, high_count)
C1_RecordLayout ==
  /\ Len(repos) = Len(aggReturn)
  /\ \A i \in DOMAIN repos :
       /\ repos[i][1] = aggLog[i]
       /\ repos[i][3] = aggReturn[i][2]
       /\ repos[i][4] = aggReturn[i][1]

\* C2: the first alert query carries no cursor, each later one the end cursor
\* of the page just received; the querying stops at the first page without a
\* next page; counts are returned only when the nodes of all pages fetched
\* are as many as the declared total, and a mismatch aborts without counts
C2_CursorPagination ==
  /\ \A i \in DOMAIN queryLog :
       queryLog[i].after =
         IF i = 1 THEN Null ELSE queryLog[i - 1].pageInfo.endCursor
  /\ \A i \in DOMAIN queryLog :
       i < Len(queryLog) => queryLog[i].status = 200 /\ queryLog[i].pageInfo.hasNextPage
  /\ pc = "query" /\ queryLog # <<>> =>
       /\ Last(queryLog).status = 200 /\ Last(queryLog).pageInfo.hasNextPage
       /\ after = Last(queryLog).pageInfo.endCursor
  /\ pc = "query" /\ queryLog = <<>> => after = Null
  /\ alerts = Served(queryLog)
  /\ aggReturn # <<>> => Some(Len(Served(queryLog))) = declared
  /\ (/\ queryLog # <<>>
      /\ Last(queryLog).status = 200
      /\ ~Last(queryLog).pageInfo.hasNextPage
      /\ Some(Len(Served(queryLog))) # declared)
       => pc = "aborted" /\ aggReturn = <<>> /\ repos = <<>>

C2_Witness ==
  /\ Len(queryLog) = 2
  /\ queryLog[2].after = Some("Y2")
  /\ aggReturn # <<>>
  /\ Len(Served(queryLog)) = 2
  /\ Len(queryLog[1].nodes) = 1

\* C3: a listing of N pages chained by next links that ends without early
\* termination or fatal error took N list calls, each to the URL of the link
\* before it, called the Commit Fetcher and the aggregator once per entry, and
\* returned one record per entry, in the order served
C3_ListPagination ==
  pc = "done" /\ ~StopsListing(Last(listLog).content) =>
    /\ listLog[1].url = Some(1)
    /\ \A i \in DOMAIN listLog :
         IF i < Len(listLog)
           THEN /\ "next" \in DOMAIN listLog[i].links
                /\ listLog[i + 1].url = Some(listLog[i].links.next.url)
           ELSE "next" \notin DOMAIN listLog[i].links
    /\ [i \in DOMAIN commitLog |-> commitLog[i].repo] = Listed(listLog)
    /\ aggLog = Listed(listLog)
    /\ [i \in DOMAIN repos |-> repos[i][1]] = Listed(listLog)

C3_Witness ==
  /\ pc = "done"
  /\ Len(listLog) = 2
  /\ ~StopsListing(Last(listLog).content)
  /\ Len(listLog[1].content.val) = 1
  /\ Len(listLog[2].content.val) = 1
  /\ Len(repos) = 2

\* C4: when the body of a fetched list page is the rate-limit or the
\* not-found error object, the listing stops at once: no further call, the
\* records of the earlier pages returned unchanged, sorted and printed, the
\* run complete
C4_EarlyTermination ==
  [][/\ (pc = "list" /\ Len(listLog') = Len(listLog) + 1
           /\ StopsListing(Last(listLog').content))
          => /\ pc' = "done"
             /\ repos' = repos
             /\ [i \in DOMAIN repos |-> repos[i][1]] = Listed(listLog)
             /\ commitLog' = commitLog
             /\ aggLog' = aggLog
             /\ aggReturn' = aggReturn
             /\ printed' # Null
             /\ SortedPermutation(printed'[1], repos)
             /\ lines' = printed'[1]
     /\ pc = "done" => listLog' = listLog /\ commitLog' = commitLog /\ pc' = "done"]_vars

C4_Witness ==
  /\ pc = "done"
  /\ Len(listLog) = 2
  /\ Last(listLog).content = JDict([message |-> RateLimitMsg])
  /\ Len(repos) = 2
  /\ printed = Some(SortedRepos(repos))

\* C5: a commit response of unexpected shape, a non-200 alert response or an
\* alert count that differs from the declared total aborts the run: no call
\* after it, nothing of the report printed, whatever was assembled before
C5_FailFast ==
  [][/\ failed' => pc' = "aborted" /\ printed' = Null /\ lines' = <<>>
     /\ failed => /\ listLog' = listLog
                  /\ commitLog' = commitLog
                  /\ queryLog' = queryLog
                  /\ pc' = "aborted"]_vars

C5_Witness ==
  /\ failed
  /\ pc = "aborted"
  /\ Len(repos) >= 1
  /\ Last(commitLog).body = JDict([message |-> RateLimitMsg])

\* C6 as stated: for a repository with zero commits, whatever the commit
\* endpoint answers, the Commit Fetcher returns the sentinel triple without
\* raising and the lister goes on to the alert query and the record
C6_AnyAnswerOfEmptyRepo ==
  \A i \in DOMAIN commitLog :
    commitLog[i].empty =>
      /\ i \in DOMAIN aggLog
      /\ aggLog[i] = commitLog[i].repo
      /\ i = Len(commitLog) => triple = SentinelTriple

\* C6 as amended: when the commit endpoint answers with the error object
\* "Git Repository is empty.", the Commit Fetcher returns the sentinel triple
\* without raising, the lister goes on to the alert query of that repository
\* and the record appended when the aggregator returns carries the sentinel
C6_MarkedEmptyRepo ==
  \A i \in DOMAIN commitLog :
    commitLog[i].body = MarkerBody =>
      /\ i \in DOMAIN aggLog
      /\ aggLog[i] = commitLog[i].repo
      /\ i = Len(commitLog) => triple = SentinelTriple
      /\ i \in DOMAIN aggReturn =>
           /\ i \in DOMAIN repos
           /\ repos[i][1] = commitLog[i].repo
           /\ <<repos[i][2], repos[i][5], repos[i][6]>> = SentinelTriple

C6_Witness ==
  /\ Len(repos) = 2
  /\ commitLog[2].body = MarkerBody
  /\ repos[2][2] = EmptyRepoDate
  /\ aggReturn[2] = <<1, 0>>

\* the alert has none of the three marks of a closed alert
Unmarked(alert) ==
  \A k \in {"dismissedAt", "fixedAt", "dismisser"} : k \in DOMAIN alert => alert[k] = Null

OpenOfSeverity(nodes, severity) ==
  Cardinality({i \in DOMAIN nodes :
                 Unmarked(nodes[i]) /\ nodes[i].securityAdvisory.severity = severity})

\* C7: the counts returned are the number of served alerts without dismissal
\* timestamp, fix timestamp and dismisser whose severity is exactly CRITICAL,
\* and the number of those whose severity is exactly HIGH
C7_OpenCounts ==
  aggReturn # <<>> =>
    aggReturn[1] = <<OpenOfSeverity(Served(queryLog), "CRITICAL"),
                     OpenOfSeverity(Served(queryLog), "HIGH")>>

C7_Witness ==
  /\ aggReturn = <<<<0, 1>>>>
  /\ Len(queryLog) = 2
  /\ Served(queryLog) = <<Alert(Null, Null, Octocat, "CRITICAL"), OpenHigh>>

\* C8: what a completed run prints is the records the lister returned, none
\* dropped, duplicated or altered, in non-increasing order of the commit date
\* compared as plain strings, the sentinel among them
C8_SortedReport ==
  pc = "done" =>
    /\ printed # Null
    /\ SortedPermutation(printed[1], repos)
    /\ lines = printed[1]

C8_Witness ==
  /\ pc = "done"
  /\ Len(repos) = 3
  /\ <<repos[1][2], repos[2][2], repos[3][2]>> = <<Date2023, Date2024, EmptyRepoDate>>
  /\ <<printed[1][1][1], printed[1][2][1], printed[1][3][1]>> = <<"C", "B", "A">>

\* the end-to-end scenario: the organization lists repo A, whose last commit
\* date begins with a digit and which has one open CRITICAL alert, then the
\* empty repo B, which has no alert, and nothing more
Scenario ==
  /\ Listed(listLog) = <<"A", "B">>
  /\ Last(listLog).content.type = "list"
  /\ "next" \notin DOMAIN Last(listLog).links
  /\ Len(commitLog) = 2
  /\ commitLog[1].body = JList(<<CommitEntry(Date2024, DevEmail, "Ann")>>)
  /\ Head(Date2024) \in {"0", "1", "2", "3", "4", "5", "6", "7", "8", "9"}
  /\ commitLog[2].body = MarkerBody
  /\ aggReturn = <<<<1, 0>>, <<0, 0>>>>

\* C9 as stated: in the scenario the run completes and prints two records,
\* A's before B's
C9_ABeforeB ==
  Scenario =>
    /\ pc = "done"
    /\ Len(lines) = 2
    /\ lines[1][1] = "A"
    /\ lines[2][1] = "B"

\* C9 as amended: in the scenario the run completes and prints two records,
\* B's before A's
C9_BBeforeA ==
  Scenario =>
    /\ pc = "done"
    /\ Len(lines) = 2
    /\ lines[1][1] = "B"
    /\ lines[2][1] = "A"
    /\ printed = Some(lines)

C9_Witness == Scenario /\ pc = "done" /\ Len(lines) = 2

\* the emails of AllCommits in which "github" occurs
GithubEmails == {BotEmail, GithubOnly, TailEmail}

\* C10: for a commit read, the email returned is "none" when the author email
\* contains "github" and the author email otherwise; the date and the author
\* name are those of the response
C10_EmailRedaction ==
  \A i \in DOMAIN commitLog :
    LET body == commitLog[i].body
        c == body.val[1].commit
        email == IF c.author.email \in GithubEmails THEN NoneEmail ELSE c.author.email
    IN  (body.type = "list" /\ body.val # <<>> /\ "commit" \in DOMAIN body.val[1]
           /\ "committer" \in DOMAIN body.val[1].commit) =>
          /\ i \in DOMAIN aggLog
          /\ i = Len(commitLog) => triple = <<c.committer.date, email, c.author.name>>
          /\ i \in DOMAIN repos =>
               <<repos[i][2], repos[i][5], repos[i][6]>>
                 = <<c.committer.date, email, c.author.name>>

C10_Witness ==
  /\ Len(repos) = 1
  /\ commitLog[1].body = JList(<<CommitEntry(Date2023, TailEmail, "github-actions")>>)
  /\ repos[1] = <<"A", Date2023, 0, 0, NoneEmail, "github-actions">>

====
